---- MODULE Spec2Model ----
(***************************************************************************)
(* Rate cache (src/src/octopus_api.py) and heating-schedule optimisers     *)
(* (src/src/optimiser/*.py) of the energy controller.                      *)
(*                                                                         *)
(* Time is counted in half-hour slots since a local midnight; a datetime   *)
(* is the number of its instant, so two datetimes compare as the code's    *)
(* aware datetimes do (by instant).                                        *)
(***************************************************************************)
EXTENDS Integers, Sequences, FiniteSets, TLC

VARIABLES
    cache,      \* latest_prices.json: [kind, prices]
    mtime,      \* st_mtime of latest_prices.json
    now,        \* datetime.now(LOCAL_TZ)
    call,       \* what the last get_octopus_rates() call did and returned
    callers,    \* concurrent get_octopus_rates() calls: where each one is
    merging,    \* the last merge_price_data() call: its arguments and results
    strategy,   \* the OptimisationStrategy member that is run
    data,       \* optimize_heating_schedule's data: a list of Rate
    params,     \* its other arguments, and the UTC offset of the system's zone
    opc,        \* where the run is: "idle", "start", "loop", "done"
    on_indices,                 \* advanced strategy: the slots chosen so far
    uncovered_comfort_slots,    \* advanced strategy: the comfort slots left
    iterations,                 \* advanced strategy: passes of the while loop
    full_schedule,              \* the per-slot schedule of the run
    result                      \* the dictionary returned

storeVars == <<cache, mtime, now, call, callers, merging>>

optVars == <<strategy, data, params, opc, on_indices, uncovered_comfort_slots,
             iterations, full_schedule, result>>

vars == <<cache, mtime, now, call, callers, merging, strategy, data, params, opc, on_indices,
          uncovered_comfort_slots, iterations, full_schedule, result>>

-----------------------------------------------------------------------------
(* Units and program constants *)

\* half-hour slots in an hour (slot_duration_hours = 0.5)
SlotsPerHour == 2

SlotsPerDay == 24 * SlotsPerHour

\* timedelta(hours=2), the age from which the cache is stale
MAX_AGE == 2 * SlotsPerHour

\* timedelta(hours=48), the cutoff of merge_price_data
CUTOFF == 48 * SlotsPerHour

-----------------------------------------------------------------------------
(* Bounds *)

\* longest series the API returns in one fetch
MaxFetch == 2

\* longest series in the cache file the program starts with
MaxCache == 2

\* how far the clock advances
MaxTicks == 4

\* the clock starts at 02:00 local on the third day
NowStart == 2 * SlotsPerDay + 4

\* valid_from values of the slots: one that is 48 hours old soon after the
\* start, and the two slots at the start of the clock
Keys == {NowStart - CUTOFF + 1, NowStart, NowStart + 1}

\* a Rate: each key comes in two versions, which differ in every other field
RateA(k) == [valid_from |-> k, valid_to |-> k + 1, value_exc_vat |-> 10, value_inc_vat |-> 11]

RateB(k) == [valid_from |-> k, valid_to |-> k + 2, value_exc_vat |-> 20, value_inc_vat |-> 21]

RateUniverse == {RateA(k) : k \in Keys} \cup {RateB(k) : k \in Keys}

SeqsUpTo(S, n) == UNION {[1..m -> S] : m \in 0..n}

-----------------------------------------------------------------------------
(* Optional values: None, or a value *)

None == [is_none |-> TRUE, value |-> <<>>]

Some(v) == [is_none |-> FALSE, value |-> v]

-----------------------------------------------------------------------------
(* Pure functions of octopus_api.py *)

Range(s) == {s[i] : i \in 1..Len(s)}

KeysOf(rates) == {rates[i].valid_from : i \in 1..Len(rates)}

\* list.sort(key=lambda r: r.valid_from): stable, ascending
InsertByValidFrom(r, s) ==
    LET k == Cardinality({i \in 1..Len(s) : s[i].valid_from <= r.valid_from})
    IN  SubSeq(s, 1, k) \o <<r>> \o SubSeq(s, k + 1, Len(s))

RECURSIVE SortByValidFrom(_)
SortByValidFrom(s) ==
    IF s = <<>> THEN <<>>
    ELSE InsertByValidFrom(s[Len(s)], SortByValidFrom(SubSeq(s, 1, Len(s) - 1)))

\* the interval taken as closed at valid_to
get_current_rate_closed(latest_prices, as_at_dt) ==
    LET hits == {i \in 1..Len(latest_prices) :
                    /\ latest_prices[i].valid_from <= as_at_dt
                    /\ as_at_dt <= latest_prices[i].valid_to}
    IN  IF hits = {} THEN <<>>
        ELSE <<latest_prices[CHOOSE i \in hits : \A j \in hits : i <= j]>>

\* get_current_rate: the first rate with valid_from <= now < valid_to, as a
\* sequence of at most one rate (<<>> is None)
get_current_rate(latest_prices, as_at_dt) ==
    LET hits == {i \in 1..Len(latest_prices) :
                    /\ latest_prices[i].valid_from <= as_at_dt
                    /\ as_at_dt < latest_prices[i].valid_to}
    IN  IF hits = {} THEN <<>>
        ELSE <<latest_prices[CHOOSE i \in hits : \A j \in hits : i <= j]>>

\* a cutoff at local midnight of the day before t instead
cutoff_time_local_midnight(t) == ((t \div SlotsPerDay) - 1) * SlotsPerDay

\* cutoff_time = now - timedelta(hours=48)
cutoff_time(t) == t - CUTOFF

\* the comparison turned round: the prices up to the cutoff are kept
filtered_existing_flipped(existing_prices, t) ==
    SelectSeq(existing_prices, LAMBDA price : price.valid_from <= cutoff_time(t))

\* filtered_existing: the existing prices with valid_from >= cutoff_time
filtered_existing(existing_prices, t) ==
    SelectSeq(existing_prices, LAMBDA price : price.valid_from >= cutoff_time(t))

\* the seen_times check left out: every rate is kept
unique_prices_keep_all(rates) == rates

\* the seen_times loop: the first rate of each valid_from is kept
RECURSIVE unique_prices(_)
unique_prices(rates) ==
    IF rates = <<>> THEN <<>>
    ELSE LET front == unique_prices(SubSeq(rates, 1, Len(rates) - 1))
             price == rates[Len(rates)]
         IN  IF price.valid_from \in KeysOf(front) THEN front
             ELSE Append(front, price)

\* all_prices = filtered_existing + new_prices
all_prices(existing_prices, new_prices, t) ==
    filtered_existing(existing_prices, t) \o new_prices

\* the final sort left out
merge_price_data_unsorted(existing_prices, new_prices, t) ==
    unique_prices(all_prices(existing_prices, new_prices, t))

merge_price_data(existing_prices, new_prices, t) ==
    SortByValidFrom(unique_prices(all_prices(existing_prices, new_prices, t)))

\* no merge_price_data() call yet
NoMerge ==
    [applied |-> FALSE, existing_prices |-> <<>>, new_prices |-> <<>>, as_at |-> 0,
     filtered |-> <<>>, result |-> <<>>, result_reordered |-> <<>>]

-----------------------------------------------------------------------------
(* The cache file *)

\* what latest_prices.json can hold
CacheKinds == {"absent", "bad_json", "wrong_shape", "missing_key", "bad_timestamp", "ok"}

\* what reading and rebuilding the Rate list does for each kind of content:
\* json.load raises JSONDecodeError, rate["..."] raises KeyError on an object
\* without the key and TypeError on a non-object (or iterating a non-array
\* does), fromisoformat raises ValueError
ParseRaises(kind) ==
    CASE kind = "bad_json"      -> "JSONDecodeError"
      [] kind = "wrong_shape"   -> "TypeError"
      [] kind = "missing_key"   -> "KeyError"
      [] kind = "bad_timestamp" -> "ValueError"
      [] OTHER                  -> ""

\* except (FileNotFoundError, json.JSONDecodeError, KeyError, ValueError)
Caught == {"FileNotFoundError", "JSONDecodeError", "KeyError", "ValueError"}

\* the window of 30 minutes that the 2 hours replaced
IsFresh_thirty_minutes(file_mtime, t) == ~(t - file_mtime >= SlotsPerHour \div 2)

\* a cache of exactly two hours still counted as fresh
IsFresh_inclusive(file_mtime, t) == ~(t - file_mtime > MAX_AGE)

\* age < timedelta(hours=2)
IsFresh(file_mtime, t) == ~(t - file_mtime >= MAX_AGE)

\* the cached series cut at local midnight of the previous day before it is
\* returned
get_cached_prices_trimmed(file, file_mtime, t) ==
    IF file.kind = "absent" THEN [raised |-> "", result |-> None]
    ELSE IF ~IsFresh(file_mtime, t) THEN [raised |-> "", result |-> None]
    ELSE IF ParseRaises(file.kind) = ""
         THEN [raised |-> "",
               result |-> Some(SelectSeq(file.prices,
                               LAMBDA r : r.valid_to > cutoff_time_local_midnight(t)))]
    ELSE IF ParseRaises(file.kind) \in Caught THEN [raised |-> "", result |-> None]
    ELSE [raised |-> ParseRaises(file.kind), result |-> None]

\* get_cached_prices(): [raised, result]
get_cached_prices(file, file_mtime, t) ==
    IF file.kind = "absent" THEN [raised |-> "", result |-> None]
    ELSE IF ~IsFresh(file_mtime, t) THEN [raised |-> "", result |-> None]
    ELSE IF ParseRaises(file.kind) = "" THEN [raised |-> "", result |-> Some(file.prices)]
    ELSE IF ParseRaises(file.kind) \in Caught THEN [raised |-> "", result |-> None]
    ELSE [raised |-> ParseRaises(file.kind), result |-> None]

\* step 5 of get_octopus_rates: the load for merging, whatever the age
load_existing(file) ==
    IF file.kind = "absent" THEN [raised |-> "", result |-> None]
    ELSE IF ParseRaises(file.kind) = "" THEN [raised |-> "", result |-> Some(file.prices)]
    ELSE IF ParseRaises(file.kind) \in Caught THEN [raised |-> "", result |-> None]
    ELSE [raised |-> ParseRaises(file.kind), result |-> None]

\* what the API call gives: a failure (requests raises, or raise_for_status
\* does), or the "results" of the response: one rate per valid_from, in any
\* order, possibly none
ApiOutcomes ==
    {[ok |-> FALSE, results |-> <<>>]}
    \cup {[ok |-> TRUE, results |-> s] :
            s \in {q \in SeqsUpTo(RateUniverse, MaxFetch) :
                      Cardinality(KeysOf(q)) = Len(q)}}

\* the status of the response never looked at
request_raises_never(api) == FALSE

\* requests.get raises, or response.raise_for_status() does
request_raises(api) == ~api.ok

\* the record of a call: the file it found (kind, and age at the call), the
\* path it took, the exception it raised (if any), what the API gave, the
\* stale cache it loaded for merging, what it returned, whether it wrote the
\* cache file
NoCall ==
    [path |-> "none", found |-> "absent", age |-> 0, raised |-> "",
     api |-> "not_called", new_prices |-> <<>>, existing |-> None,
     latest |-> <<>>, current |-> <<>>, as_at |-> 0, wrote |-> FALSE]

Started(file, file_mtime, t) ==
    [NoCall EXCEPT !.found = file.kind, !.age = t - file_mtime, !.as_at = t]

\* the sorts left out: the merged rates stay in the order they were met
merged_latest_unsorted(existing, fetched, t) ==
    IF existing.is_none THEN fetched
    ELSE unique_prices(all_prices(existing.value, fetched, t))

\* the merge left out: the fetched series alone is saved and returned
merged_latest_fetched_only(existing, fetched, t) == fetched

\* the series saved and returned on the fetch path: the sorted results, or
\* their merge with the stale cache, sorted again
merged_latest(existing, fetched, t) ==
    IF existing.is_none THEN fetched
    ELSE SortByValidFrom(merge_price_data(existing.value, fetched, t))

\* get_octopus_rates() at time t with the API answering api:
\* [call, cache, mtime]
get_octopus_rates(file, file_mtime, t, api) ==
    LET cached  == get_cached_prices(file, file_mtime, t)
        fetched == SortByValidFrom(api.results)
        loaded  == load_existing(file)
        latest  == merged_latest(loaded.result, fetched, t)
        begun   == Started(file, file_mtime, t)
        asked   == [begun EXCEPT !.path = "fetch",
                                 !.api = IF api.ok THEN "ok" ELSE "failed"]
        same    == [cache |-> file, mtime |-> file_mtime]
    IN  IF cached.raised # "" THEN
            \* get_cached_prices() raised: nothing else runs
            same @@ [call |-> [begun EXCEPT !.path = "cache", !.raised = cached.raised]]
        ELSE IF ~cached.result.is_none THEN
            \* the cached series is returned
            same @@ [call |-> [begun EXCEPT !.path = "cache",
                                  !.latest = cached.result.value,
                                  !.current = get_current_rate(cached.result.value, t)]]
        ELSE IF request_raises(api) THEN
            same @@ [call |-> [asked EXCEPT !.raised = "RequestException"]]
        ELSE IF loaded.raised # "" THEN
            \* the load for merging raised, after the request
            same @@ [call |-> [asked EXCEPT !.new_prices = api.results,
                                  !.raised = loaded.raised]]
        ELSE
            \* the cache file is written and the series returned
            [cache |-> [kind |-> "ok", prices |-> latest], mtime |-> t,
             call |-> [asked EXCEPT !.new_prices = api.results,
                          !.existing = loaded.result,
                          !.latest = latest,
                          !.current = get_current_rate(latest, t),
                          !.wrote = TRUE]]

-----------------------------------------------------------------------------
(* Concurrent callers of get_octopus_rates(): the web server's request     *)
(* handlers each call it, with no lock around the cache file               *)

\* the callers that can be inside get_octopus_rates() at the same time
Callers == {1, 2}

\* a caller's position and locals: pc is "idle" (not yet called), "request"
\* (before requests.get), "load" (before step 5), "open" (before
\* open(..., "w")), "dump" (file opened and truncated, before json.dump and
\* close) or "done"; saw is what the caller's last read of the cache file
\* found ("unread" before any read), during_write whether another caller had
\* the file open for writing at that read
IdleCaller ==
    [pc |-> "idle", raised |-> "", fetched |-> <<>>, existing |-> None,
     latest |-> <<>>, as_at |-> 0, saw |-> "unread", during_write |-> FALSE,
     wrote |-> FALSE]

\* open("latest_prices.json", "w") truncates the file: it is empty, which is
\* no JSON document, until json.dump has written and the file is closed
Truncated == [kind |-> "bad_json", prices |-> <<>>]

\* another caller than p has the cache file open for writing
WriteInProgress(cs, p) == \E q \in Callers \ {p} : cs[q].pc = "dump"

\* the file after caller p's json.dump and close. The write starts at offset
\* 0 of whatever the file holds by then: a longer document that another
\* caller wrote since p's open() keeps its tail, and the file is no JSON
\* document (every rate takes the same number of bytes)
Dumped(file, latest) ==
    IF file.kind = "ok" /\ Len(file.prices) > Len(latest) THEN Truncated
    ELSE [kind |-> "ok", prices |-> latest]

-----------------------------------------------------------------------------
(* The rate store as a state machine *)

\* the cache files the program can start with: none, a damaged one, or a
\* series as the program writes it (ascending, one rate per valid_from)
InitCaches ==
    {[kind |-> k, prices |-> <<>>] : k \in CacheKinds \ {"ok"}}
    \cup {[kind |-> "ok", prices |-> SortByValidFrom(s)] :
            s \in {q \in SeqsUpTo(RateUniverse, MaxCache) :
                      Cardinality(KeysOf(q)) = Len(q)}}

\* the store starts with some cache file, just stale or still fresh for one
\* more slot; no optimiser run is in progress
Init ==
    /\ cache \in InitCaches
    /\ mtime \in {NowStart - MAX_AGE, NowStart - MAX_AGE + 1}
    /\ now = NowStart
    /\ call = NoCall
    /\ callers = [p \in Callers |-> IdleCaller]
    /\ merging = NoMerge
    /\ strategy = "SIMPLE_GREEDY"
    /\ data = <<>>
    /\ params = [comfort_hours |-> <<>>, preheat_slots |-> 0, retain_slots |-> 0,
                 utc_offset |-> 0]
    /\ opc = "idle"
    /\ on_indices = {}
    /\ uncovered_comfort_slots = {}
    /\ iterations = 0
    /\ full_schedule = <<>>
    /\ result = <<>>

\* time passes
Tick ==
    /\ now < NowStart + MaxTicks
    /\ now' = now + 1
    /\ UNCHANGED <<cache, mtime, call, callers, merging>>
    /\ UNCHANGED optVars

\* whether the call gets as far as the API request: the cache gave nothing
ApiCalled(file, file_mtime, t) ==
    LET cached == get_cached_prices(file, file_mtime, t)
    IN  cached.raised = "" /\ cached.result.is_none

\* one call of get_octopus_rates(); the API's answer matters only when the
\* call reaches the request
GetOctopusRates ==
    \E api \in IF ApiCalled(cache, mtime, now) THEN ApiOutcomes
                ELSE {[ok |-> FALSE, results |-> <<>>]} :
        LET r == get_octopus_rates(cache, mtime, now, api)
        IN  /\ cache' = r.cache
            /\ mtime' = r.mtime
            /\ call' = r.call
            /\ UNCHANGED <<now, callers, merging>>
            /\ UNCHANGED optVars

Next == Tick \/ GetOctopusRates

Spec == Init /\ [][Next]_vars

-----------------------------------------------------------------------------
(* merge_price_data() on its own: any two series, each with one rate per   *)
(* valid_from and in any order, at any time of the clock                   *)

\* the series of at most n rates with one rate per valid_from, in any order
AnyOrderSeries(n) ==
    {q \in SeqsUpTo(RateUniverse, n) : Cardinality(KeysOf(q)) = Len(q)}

\* the series that hold the rates of s in some order
Reorderings(s) ==
    {q \in [1..Len(s) -> Range(s)] : Range(q) = Range(s)}

MergeInit ==
    /\ cache = [kind |-> "absent", prices |-> <<>>]
    /\ mtime = 0
    /\ now = NowStart
    /\ call = NoCall
    /\ callers = [p \in Callers |-> IdleCaller]
    /\ merging = NoMerge
    /\ strategy = "SIMPLE_GREEDY"
    /\ data = <<>>
    /\ params = [comfort_hours |-> <<>>, preheat_slots |-> 0, retain_slots |-> 0,
                 utc_offset |-> 0]
    /\ opc = "idle"
    /\ on_indices = {}
    /\ uncovered_comfort_slots = {}
    /\ iterations = 0
    /\ full_schedule = <<>>
    /\ result = <<>>

\* merge_price_data(existing_prices, new_prices) is called, and called again
\* with the same rates in another order
MergePriceData ==
    /\ ~merging.applied
    /\ \E existing_prices \in AnyOrderSeries(MaxCache),
          new_prices \in AnyOrderSeries(MaxFetch) :
          \E existing_reordered \in Reorderings(existing_prices),
             new_reordered \in Reorderings(new_prices) :
              merging' =
                  [applied |-> TRUE,
                   existing_prices |-> existing_prices,
                   new_prices |-> new_prices,
                   as_at |-> now,
                   filtered |-> filtered_existing(existing_prices, now),
                   result |-> merge_price_data(existing_prices, new_prices, now),
                   result_reordered |->
                       merge_price_data(existing_reordered, new_reordered, now)]
    /\ UNCHANGED <<cache, mtime, now, call, callers>>
    /\ UNCHANGED optVars

MergeNext == Tick \/ MergePriceData

SpecMerge == MergeInit /\ [][MergeNext]_vars

-----------------------------------------------------------------------------
(* Two callers inside get_octopus_rates() at once, one statement that      *)
(* touches the cache file or the network per step                          *)

\* the series the API returns to the concurrent callers, as sorted at once
\* by get_octopus_rates
ConcApiOutcomes ==
    {[ok |-> FALSE, results |-> <<>>]}
    \cup {[ok |-> TRUE, results |-> SortByValidFrom(s)] :
            s \in {q \in SeqsUpTo({RateA(k) : k \in Keys}, MaxFetch) :
                      Cardinality(KeysOf(q)) = Len(q)}}

\* the cache files the callers can find: none, or a series written earlier
ConcInitCaches ==
    {[kind |-> "absent", prices |-> <<>>]}
    \cup {[kind |-> "ok", prices |-> SortByValidFrom(s)] :
            s \in {q \in SeqsUpTo({RateB(k) : k \in Keys}, MaxCache) :
                      Cardinality(KeysOf(q)) = Len(q)}}

ConcInit ==
    /\ cache \in ConcInitCaches
    /\ mtime \in {NowStart - MAX_AGE, NowStart - MAX_AGE + 1}
    /\ now = NowStart
    /\ call = NoCall
    /\ callers = [p \in Callers |-> IdleCaller]
    /\ merging = NoMerge
    /\ strategy = "SIMPLE_GREEDY"
    /\ data = <<>>
    /\ params = [comfort_hours |-> <<>>, preheat_slots |-> 0, retain_slots |-> 0,
                 utc_offset |-> 0]
    /\ opc = "idle"
    /\ on_indices = {}
    /\ uncovered_comfort_slots = {}
    /\ iterations = 0
    /\ full_schedule = <<>>
    /\ result = <<>>

\* a caller enters get_octopus_rates(): get_cached_prices()
CallerBegin ==
    \E p \in Callers :
        /\ callers[p].pc = "idle"
        /\ LET cached == get_cached_prices(cache, mtime, now)
               \* the file is read when it exists and is fresh
               read   == cache.kind # "absent" /\ IsFresh(mtime, now)
               seen   == [callers[p] EXCEPT
                             !.saw = IF read THEN cache.kind ELSE "unread",
                             !.during_write = read /\ WriteInProgress(callers, p)]
           IN  callers' = [callers EXCEPT ![p] =
                   IF cached.raised # ""
                   THEN [seen EXCEPT !.pc = "done", !.raised = cached.raised]
                   ELSE IF ~cached.result.is_none
                   THEN [seen EXCEPT !.pc = "done", !.latest = cached.result.value]
                   ELSE [seen EXCEPT !.pc = "request"]]
        /\ UNCHANGED <<cache, mtime, now, call, merging>>
        /\ UNCHANGED optVars

\* requests.get and raise_for_status, then the results sorted
CallerRequest ==
    \E p \in Callers, api \in ConcApiOutcomes :
        /\ callers[p].pc = "request"
        /\ callers' = [callers EXCEPT ![p] =
               IF request_raises(api)
               THEN [@ EXCEPT !.pc = "done", !.raised = "RequestException"]
               ELSE [@ EXCEPT !.pc = "load", !.fetched = SortByValidFrom(api.results)]]
        /\ UNCHANGED <<cache, mtime, now, call, merging>>
        /\ UNCHANGED optVars

\* step 5: the cache file is read for merging, and merged
CallerLoad ==
    \E p \in Callers :
        /\ callers[p].pc = "load"
        /\ LET loaded == load_existing(cache)
               seen   == [callers[p] EXCEPT
                             !.as_at = now,
                             !.saw = IF cache.kind # "absent" THEN cache.kind
                                     ELSE "unread",
                             !.during_write = cache.kind # "absent"
                                              /\ WriteInProgress(callers, p)]
           IN  callers' = [callers EXCEPT ![p] =
                   IF loaded.raised # ""
                   THEN [seen EXCEPT !.pc = "done", !.raised = loaded.raised]
                   ELSE [seen EXCEPT
                            !.pc = "open",
                            !.existing = loaded.result,
                            !.latest = merged_latest(loaded.result,
                                                     callers[p].fetched, now)]]
        /\ UNCHANGED <<cache, mtime, now, call, merging>>
        /\ UNCHANGED optVars

\* step 6: open("latest_prices.json", "w")
CallerOpen ==
    \E p \in Callers :
        /\ callers[p].pc = "open"
        /\ cache' = Truncated
        /\ mtime' = now
        /\ callers' = [callers EXCEPT ![p].pc = "dump"]
        /\ UNCHANGED <<now, call, merging>>
        /\ UNCHANGED optVars

\* step 6: json.dump, the file closed, and the return
CallerDump ==
    \E p \in Callers :
        /\ callers[p].pc = "dump"
        /\ cache' = Dumped(cache, callers[p].latest)
        /\ mtime' = now
        /\ callers' = [callers EXCEPT ![p].pc = "done", ![p].wrote = TRUE]
        /\ UNCHANGED <<now, call, merging>>
        /\ UNCHANGED optVars

ConcNext ==
    Tick \/ CallerBegin \/ CallerRequest \/ CallerLoad \/ CallerOpen \/ CallerDump

SpecConc == ConcInit /\ [][ConcNext]_vars

-----------------------------------------------------------------------------
(* The optimisers: src/src/optimiser                                       *)
(* Slot indices are the code's (from 0); element i of a list is the        *)
(* sequence's element i + 1.                                               *)

\* most slots in an input series
MaxSlots == 4

\* largest preheat_slots
MaxPreheat == 2

\* largest retain_slots
MaxRetain == 2

\* value_inc_vat of the slots, pence per kWh
Prices == {-1, 1, 2}

\* valid_from of the first slot: 06:30 and 08:00 UTC
StartTimes == {6 * SlotsPerHour + 1, 8 * SlotsPerHour}

\* comfort_hours
ComfortChoices == {<< <<7, 9>> >>, << <<6, 7>>, <<8, 10>> >>}

\* UTC offset, in hours, of the zone astimezone() converts to
UtcOffsets == {0, 1}

Strategies == {"SIMPLE_GREEDY", "ADVANCED_PREDICTIVE"}

\* the while loop's passes are counted up to here
IterCap == MaxSlots + 2

OptRate(t, p) ==
    [valid_from |-> t, valid_to |-> t + 1, value_exc_vat |-> p, value_inc_vat |-> p]

\* a series of contiguous slots from t0 with the prices ps
Series(t0, ps) == [i \in 1..Len(ps) |-> OptRate(t0 + i - 1, ps[i])]

Reverse(s) == [i \in 1..Len(s) |-> s[Len(s) + 1 - i]]

\* the worked example: four slots from 07:00 with these prices, comfort
\* hours (7, 9), preheat_slots = 1, retain_slots = 2, local time equal to UTC
ExampleData == Series(7 * SlotsPerHour, <<10, -2, 8, 9>>)

ExampleParams ==
    [comfort_hours |-> << <<7, 9>> >>, preheat_slots |-> 1, retain_slots |-> 2,
     utc_offset |-> 0]

\* the input taken as it comes, the sort by valid_from left out
data_unsorted(d) == d

\* data_sorted = sorted(data, key=lambda r: r.valid_from)
data_sorted(d) == SortByValidFrom(d)

\* times = [r.valid_from.astimezone(timezone.utc) ...]
times(d) ==
    LET sorted == data_sorted(d)
    IN  [i \in 1..Len(d) |-> sorted[i].valid_from]

\* prices = [r.value_inc_vat ...]
prices(d) ==
    LET sorted == data_sorted(d)
    IN  [i \in 1..Len(d) |-> sorted[i].value_inc_vat]

\* t.hour of a UTC time
HourUtc(t) == (t \div SlotsPerHour) % 24

\* t.astimezone().hour: the hour in the system's zone
HourLocal(t, off) == ((t \div SlotsPerHour) + off) % 24

\* start <= hour < end for some (start, end) of comfort_hours
InComfortHours(h, ch) == \E k \in 1..Len(ch) : ch[k][1] <= h /\ h < ch[k][2]

\* comfort_slots of the simple greedy strategy
greedy_comfort_slots(ts, ch) ==
    {i \in 0..(Len(ts) - 1) : InComfortHours(HourUtc(ts[i + 1]), ch)}

\* comfort_slots of the advanced predictive strategy
advanced_comfort_slots(ts, ch, off) ==
    {i \in 0..(Len(ts) - 1) : InComfortHours(HourLocal(ts[i + 1], off), ch)}

\* the lookahead one slot too long: range(1, preheat_slots + 2)
upcoming_one_too_far(i, n, pre) == {i + j : j \in 1..(pre + 1)} \cap 0..(n - 1)

\* upcoming = [i + j for j in range(1, preheat_slots + 1) if i + j < n]
upcoming(i, n, pre) == {i + j : j \in 1..pre} \cap 0..(n - 1)

\* the decision without case 1, the negative price
greedy_on_no_negative_rule(i, ps, cs, warm_remaining, pre) ==
    IF i \in cs THEN warm_remaining <= 0
    ELSE /\ upcoming(i, Len(ps), pre) \cap cs # {}
         /\ \A idx \in upcoming(i, Len(ps), pre) : ps[i + 1] <= ps[idx + 1]

\* the simple greedy strategy's decision for slot i: cases 1, 2 and 3
greedy_on(i, ps, cs, warm_remaining, pre) ==
    IF ps[i + 1] < 0 THEN TRUE
    ELSE IF i \in cs THEN warm_remaining <= 0
    ELSE /\ upcoming(i, Len(ps), pre) \cap cs # {}
         /\ \A idx \in upcoming(i, Len(ps), pre) : ps[i + 1] <= ps[idx + 1]

\* warm read after the decrement instead of before it
warmth_after_decrement(on, warm_remaining, ret) ==
    LET wr == IF on THEN ret ELSE warm_remaining
        left == IF wr > 0 THEN wr - 1 ELSE wr
    IN  [warm |-> left > 0, warm_remaining |-> left]

\* the warmth bookkeeping of one slot, in both strategies: warm_remaining
\* before the slot and whether the slot is on give [warm, warm_remaining]
warmth(on, warm_remaining, ret) ==
    LET wr == IF on THEN ret ELSE warm_remaining
    IN  [warm |-> wr > 0, warm_remaining |-> IF wr > 0 THEN wr - 1 ELSE wr]

Slot(t, on, warm, price) == [time |-> t, on |-> on, warm |-> warm, price |-> price]

\* the simple greedy strategy's loop over the slots
greedy_schedule(ts, ps, cs, pre, ret) ==
    LET RECURSIVE pass(_)
        \* warm_remaining and full_schedule after the first k slots
        pass(k) ==
            IF k = 0 THEN [warm_remaining |-> 0, full_schedule |-> <<>>]
            ELSE LET prev == pass(k - 1)
                     on   == greedy_on(k - 1, ps, cs, prev.warm_remaining, pre)
                     w    == warmth(on, prev.warm_remaining, ret)
                 IN  [warm_remaining |-> w.warm_remaining,
                      full_schedule |->
                          Append(prev.full_schedule, Slot(ts[k], on, w.warm, ps[k]))]
    IN  pass(Len(ps)).full_schedule

\* the advanced strategy's final loop over the slots
advanced_schedule(ts, ps, on_set, ret) ==
    LET RECURSIVE pass(_)
        pass(k) ==
            IF k = 0 THEN [warm_remaining |-> 0, full_schedule |-> <<>>]
            ELSE LET prev == pass(k - 1)
                     on   == (k - 1) \in on_set
                     w    == warmth(on, prev.warm_remaining, ret)
                 IN  [warm_remaining |-> w.warm_remaining,
                      full_schedule |->
                          Append(prev.full_schedule, Slot(ts[k], on, w.warm, ps[k]))]
    IN  pass(Len(ps)).full_schedule

\* step A: the slots with a negative price
negative_price_slots(ps) == {i \in 0..(Len(ps) - 1) : ps[i + 1] < 0}

\* get_covered_slots: each heating slot and the retain_slots - 1 after it
get_covered_slots(heating_slots, ret, n) ==
    {i + j : i \in heating_slots, j \in 0..(ret - 1)} \cap 0..(n - 1)

\* the cheapest slot of the window, the earliest one of several
best_heating_slot(ps, window_start, window_end) ==
    CHOOSE i \in window_start..window_end :
        /\ \A k \in window_start..window_end : ps[i + 1] <= ps[k + 1]
        /\ \A k \in window_start..(i - 1) : ps[k + 1] > ps[i + 1]

Max(a, b) == IF a >= b THEN a ELSE b

Min(a, b) == IF a <= b THEN a ELSE b

MinOf(S) == CHOOSE x \in S : \A y \in S : x <= y

\* the prices of all slots summed, on or off
on_price_sum_all_slots(sched) ==
    LET RECURSIVE total(_)
        total(k) == IF k = 0 THEN 0 ELSE total(k - 1) + sched[k].price
    IN  total(Len(sched))

\* sum of the prices of the on slots
RECURSIVE on_price_sum(_)
on_price_sum(sched) ==
    IF sched = <<>> THEN 0
    ELSE on_price_sum(SubSeq(sched, 1, Len(sched) - 1))
         + (IF sched[Len(sched)].on THEN sched[Len(sched)].price ELSE 0)

\* power_kw, the default of both strategies, in kW
PowerKw == 1

\* slot_duration_hours, the default of both strategies, in half hours
SlotDurationHalfHours == 1

\* the cost of heating through one slot at the given price, in 1/200 pound:
\* price * power_kw * slot_duration_hours / 100 with the duration in hours
cost(price) == price * PowerKw * SlotDurationHalfHours

\* the cost of every slot added, on or off
total_cost_every_slot(sched) ==
    LET RECURSIVE total(_)
        total(k) == IF k = 0 THEN 0 ELSE total(k - 1) + cost(sched[k].price)
    IN  total(Len(sched))

\* total_cost as the loop accumulates it: the cost of a slot is added when
\* the slot is on
total_cost(sched) ==
    LET RECURSIVE total(_)
        total(k) ==
            IF k = 0 THEN 0
            ELSE total(k - 1) + (IF sched[k].on THEN cost(sched[k].price) ELSE 0)
    IN  total(Len(sched))

\* the average taken without the "if on_slots" guard
summary_unguarded_average(sched, cs, on_slots) ==
    [total_slots |-> Len(sched),
     on_slots |-> on_slots,
     total_cost |-> total_cost(sched),
     on_price_sum |-> on_price_sum(sched),
     average_on_price_is_none |-> FALSE,
     comfort_slots |-> Cardinality(cs),
     warm_comfort_slots |->
         Cardinality({i \in cs : i < Len(sched) /\ sched[i + 1].warm})]

\* the summary dictionary; total_cost is a multiple of 0.005 pound, which
\* round(total_cost, 3) leaves as it is; the average is kept as the sum of the
\* on slots' prices and on_slots
summary(sched, cs, on_slots) ==
    [total_slots |-> Len(sched),
     on_slots |-> on_slots,
     total_cost |-> total_cost(sched),
     on_price_sum |-> on_price_sum(sched),
     average_on_price_is_none |-> (on_slots = 0),
     comfort_slots |-> Cardinality(cs),
     warm_comfort_slots |->
         Cardinality({i \in cs : i < Len(sched) /\ sched[i + 1].warm})]

\* one entry of the transitions list, for slot s of the schedule
Transition(s) == [time |-> s.time, on |-> s.on, price |-> s.price]

\* the transitions with last_state starting as False: a first slot that is
\* off is not emitted
transitions_from_off(sched) ==
    LET emitted == {k \in 1..Len(sched) :
                       IF k = 1 THEN sched[k].on ELSE sched[k].on # sched[k - 1].on}
        RECURSIVE take(_)
        take(k) ==
            IF k = 0 THEN <<>>
            ELSE IF k \in emitted THEN Append(take(k - 1), Transition(sched[k]))
                 ELSE take(k - 1)
    IN  take(Len(sched))

\* the transitions with last_state never updated: every slot is emitted
transitions_every_slot(sched) == [k \in 1..Len(sched) |-> Transition(sched[k])]

\* the transitions: last_state starts as None, so the first slot always
\* differs from it
transitions(sched) ==
    LET emitted == {k \in 1..Len(sched) : k = 1 \/ sched[k].on # sched[k - 1].on}
        RECURSIVE take(_)
        take(k) ==
            IF k = 0 THEN <<>>
            ELSE IF k \in emitted
                 THEN Append(take(k - 1), [time |-> sched[k].time, on |-> sched[k].on,
                                          price |-> sched[k].price])
                 ELSE take(k - 1)
    IN  take(Len(sched))

OnCount(sched) == Cardinality({k \in 1..Len(sched) : sched[k].on})

\* the comfort slots as the running strategy classifies them
ComfortSlots ==
    IF strategy = "SIMPLE_GREEDY"
    THEN greedy_comfort_slots(times(data), params.comfort_hours)
    ELSE advanced_comfort_slots(times(data), params.comfort_hours, params.utc_offset)

-----------------------------------------------------------------------------
(* An optimiser run as a state machine *)

\* a run starts with some series, in ascending or descending order, and
\* some parameters; the store is not used
OptInit ==
    /\ cache = [kind |-> "absent", prices |-> <<>>]
    /\ mtime = 0
    /\ now = NowStart
    /\ call = NoCall
    /\ callers = [p \in Callers |-> IdleCaller]
    /\ merging = NoMerge
    /\ strategy \in Strategies
    /\ \/ \E t0 \in StartTimes, ps \in SeqsUpTo(Prices, MaxSlots) :
              data \in {Series(t0, ps), Reverse(Series(t0, ps))}
       \/ data = ExampleData
    /\ params \in [comfort_hours : ComfortChoices, preheat_slots : 0..MaxPreheat,
                   retain_slots : 0..MaxRetain, utc_offset : UtcOffsets]
    /\ opc = "start"
    /\ on_indices = {}
    /\ uncovered_comfort_slots = {}
    /\ iterations = 0
    /\ full_schedule = <<>>
    /\ result = <<>>

\* simple_greedy_optimiser.optimize_heating_schedule, from call to return
GreedyRun ==
    /\ opc = "start"
    /\ strategy = "SIMPLE_GREEDY"
    /\ LET cs    == greedy_comfort_slots(times(data), params.comfort_hours)
           sched == greedy_schedule(times(data), prices(data), cs,
                                    params.preheat_slots, params.retain_slots)
       IN  /\ full_schedule' = sched
           /\ result' = [transitions |-> transitions(sched),
                         summary |-> summary(sched, cs, OnCount(sched))]
    /\ opc' = "done"
    /\ UNCHANGED <<strategy, data, params, on_indices, uncovered_comfort_slots,
                   iterations>>
    /\ UNCHANGED storeVars

\* advanced_predictive_optimiser.optimize_heating_schedule up to the while
\* loop; empty data returns at once
AdvancedStart ==
    /\ opc = "start"
    /\ strategy = "ADVANCED_PREDICTIVE"
    /\ IF data = <<>>
       THEN /\ result' = [transitions |-> <<>>, summary |-> <<>>]
            /\ opc' = "done"
            /\ UNCHANGED <<on_indices, uncovered_comfort_slots>>
       ELSE /\ on_indices' = negative_price_slots(prices(data))
            /\ uncovered_comfort_slots' =
                   advanced_comfort_slots(times(data), params.comfort_hours,
                                          params.utc_offset)
            /\ opc' = "loop"
            /\ UNCHANGED result
    /\ UNCHANGED <<strategy, data, params, iterations, full_schedule>>
    /\ UNCHANGED storeVars

\* one pass of "while uncovered_comfort_slots"
AdvancedIterate ==
    /\ opc = "loop"
    /\ uncovered_comfort_slots # {}
    /\ LET target_slot  == MinOf(uncovered_comfort_slots)
           window_start == Max(0, target_slot - params.preheat_slots)
           window_end   == target_slot
           best         == best_heating_slot(prices(data), window_start, window_end)
           on_new       == on_indices \cup {best}
       IN  /\ on_indices' = on_new
           /\ uncovered_comfort_slots' =
                  uncovered_comfort_slots
                  \ get_covered_slots(on_new, params.retain_slots, Len(data))
    /\ iterations' = Min(iterations + 1, IterCap)
    /\ UNCHANGED <<strategy, data, params, opc, full_schedule, result>>
    /\ UNCHANGED storeVars

\* the loop has ended: the schedule, the summary and the transitions
AdvancedFinish ==
    /\ opc = "loop"
    /\ uncovered_comfort_slots = {}
    /\ LET cs    == advanced_comfort_slots(times(data), params.comfort_hours,
                                           params.utc_offset)
           sched == advanced_schedule(times(data), prices(data), on_indices,
                                      params.retain_slots)
       IN  /\ full_schedule' = sched
           /\ result' = [transitions |-> transitions(sched),
                         summary |-> summary(sched, cs, Cardinality(on_indices))]
    /\ opc' = "done"
    /\ UNCHANGED <<strategy, data, params, on_indices, uncovered_comfort_slots,
                   iterations>>
    /\ UNCHANGED storeVars

OptNext == GreedyRun \/ AdvancedStart \/ AdvancedIterate \/ AdvancedFinish

SpecOpt == OptInit /\ [][OptNext]_vars

-----------------------------------------------------------------------------
(* Properties of the optimisers, checked under SpecOpt *)

Finished == opc = "done"

\* C1: the advanced predictive strategy's coverage loop ends after at most
\* (number of comfort slots) passes, for every preheat_slots >= 0 and
\* retain_slots >= 0.
C1_CoverageLoopBounded ==
    (strategy = "ADVANCED_PREDICTIVE" /\ opc \in {"loop", "done"})
        => iterations <= Cardinality(ComfortSlots)

\* C2: in the final per-slot schedule of either strategy every comfort slot
\* is warm.
C2_ComfortSlotsWarm ==
    Finished =>
        \A i \in ComfortSlots : i < Len(full_schedule) => full_schedule[i + 1].warm

\* C3: in the final schedule of either strategy every slot of the (sorted)
\* input whose price is negative is on.
C3_NegativePriceOn ==
    (Finished /\ data # <<>>) =>
        /\ Len(full_schedule) = Len(data)
        /\ \A k \in 1..Len(data) :
               data_sorted(data)[k].value_inc_vat < 0 => full_schedule[k].on

\* C3's case: a finished greedy run with a negative-price slot that is no
\* comfort slot, has no comfort slot in its lookahead and follows an on slot
\* (so warmth remains)
C3_Witness ==
    /\ Finished
    /\ strategy = "SIMPLE_GREEDY"
    /\ params.retain_slots >= 2
    /\ \E k \in 2..Len(full_schedule) :
           /\ full_schedule[k].price < 0
           /\ full_schedule[k].on
           /\ full_schedule[k - 1].on
           /\ (k - 1) \notin ComfortSlots
           /\ upcoming(k - 1, Len(data), params.preheat_slots) \cap ComfortSlots = {}

-----------------------------------------------------------------------------
(* Properties of the rate store, checked under Spec *)

\* the last call merged the fetched series with a stale cache and saved it
Merged == call.wrote /\ ~call.existing.is_none

\* local midnight at the start of the day before t
WindowStart(t) == ((t \div SlotsPerDay) - 1) * SlotsPerDay

\* C4 as claimed: the merge result holds exactly the union of the valid_from
\* keys of the stale cache and of the fetched series, each once, whatever
\* the age of a slot.
C4_MergeKeysAreUnion ==
    Merged =>
        /\ KeysOf(call.latest) = KeysOf(call.existing.value) \cup KeysOf(call.new_prices)
        /\ Cardinality(KeysOf(call.latest)) = Len(call.latest)

\* C4 as amended: the merge result holds exactly the valid_from keys of the
\* fetched series and of those cached slots with valid_from >= now - 48 hours,
\* each once; older cached slots are dropped unless fetched again.
C4_MergeKeysWithin48h ==
    Merged =>
        /\ KeysOf(call.latest) =
               {k \in KeysOf(call.existing.value) : k >= call.as_at - CUTOFF}
               \cup KeysOf(call.new_prices)
        /\ Cardinality(KeysOf(call.latest)) = Len(call.latest)

\* C4's case: a merge that dropped a cached slot older than 48 hours and
\* met one valid_from in both series
C4_Witness ==
    /\ Merged
    /\ KeysOf(call.existing.value) \ KeysOf(call.latest) # {}
    /\ KeysOf(call.existing.value) \cap KeysOf(call.new_prices) # {}

\* C5: where the stale cache and the fetched series hold the same
\* valid_from, the merge result carries the fetched rate.
C5_IncomingWins ==
    Merged =>
        \A i \in 1..Len(call.latest), j \in 1..Len(call.new_prices) :
            call.latest[i].valid_from = call.new_prices[j].valid_from
                => call.latest[i] = call.new_prices[j]

\* C6: a call whose API request fails raises, returns no rates and leaves the
\* cache file and its modification time as they were.
C6_FetchFailureKeepsCache ==
    [][call'.api = "failed" =>
          /\ call'.raised = "RequestException"
          /\ call'.latest = <<>> /\ call'.current = <<>>
          /\ ~call'.wrote
          /\ cache' = cache /\ mtime' = mtime]_vars

\* C6's case: the request failed while a stale cache with rates existed
C6_Witness ==
    /\ call.api = "failed"
    /\ call.found = "ok"
    /\ call.age >= MAX_AGE
    /\ cache.prices # <<>>

\* C7: a call whose API request returns an empty series fails and does not
\* write the cache.
C7_EmptyFetchFails ==
    (call.api = "ok" /\ call.new_prices = <<>>) => (call.raised # "" /\ ~call.wrote)

\* C8: a call returns the cached series, without the API request and without
\* writing the cache, exactly when the file exists, parses and is less than
\* two hours old; a file of two hours or more leads to the request.
C8_ServedFromCacheIffFresh ==
    call.path # "none" =>
        /\ (call.path = "cache" /\ call.raised = "")
               <=> (call.found = "ok" /\ call.age < MAX_AGE)
        /\ (call.path = "cache" /\ call.raised = "")
               => (call.api = "not_called" /\ ~call.wrote)
        /\ (call.age >= MAX_AGE) => (call.path = "fetch" /\ call.api # "not_called")

\* C8's case: a call served from a cache one slot short of two hours old
C8_Witness ==
    /\ call.path = "cache"
    /\ call.raised = ""
    /\ call.found = "ok"
    /\ call.age = MAX_AGE - 1
    /\ call.latest # <<>>

\* C9: whatever the cache file holds, loading it raises nothing: the call
\* goes on to the API request.
C9_CacheLoadNeverRaises ==
    call.path # "none" =>
        /\ call.raised \in {"", "RequestException"}
        /\ (call.found # "ok") => call.api # "not_called"

\* C10 as claimed: after a fetch that returned rates, the series saved and
\* returned holds exactly the slots of the stale cache and of the fetched
\* series whose valid_to > local midnight of the previous day.
C10_TrimmedToLocalMidnight ==
    (call.wrote /\ call.new_prices # <<>>) =>
        KeysOf(call.latest) =
            {r.valid_from : r \in {q \in Range(call.existing.value) \cup Range(call.new_prices) :
                                      q.valid_to > WindowStart(call.as_at)}}

\* C10 as amended: the series saved is the series returned; it holds every
\* fetched slot and every slot of the stale cache with
\* valid_from >= now - 48 hours, and no other; nothing is trimmed at a local
\* midnight, and no fetched slot is trimmed at all.
C10_SavedWindowIs48h ==
    call.wrote =>
        /\ cache = [kind |-> "ok", prices |-> call.latest]
        /\ mtime = call.as_at
        /\ KeysOf(call.latest) =
               KeysOf(call.new_prices)
               \cup {k \in KeysOf(call.existing.value) : k >= call.as_at - CUTOFF}
        /\ Range(call.latest) \subseteq Range(call.new_prices) \cup Range(call.existing.value)

\* C10's case: a merge that kept a cached slot which ended before local
\* midnight of the previous day
C10_Witness ==
    /\ Merged
    /\ \E r \in Range(call.latest) :
           /\ r \in Range(call.existing.value)
           /\ r.valid_to <= WindowStart(call.as_at)

\* the last call returned the cached series
CacheHit == call.path = "cache" /\ call.raised = ""

\* C11 as claimed: the series returned from a fresh cache holds no slot with
\* valid_to <= local midnight of the previous day.
C11_CacheHitTrimmed ==
    CacheHit => \A r \in Range(call.latest) : r.valid_to > WindowStart(call.as_at)

\* C11 as amended: the series returned from a fresh cache is the series of
\* the cache file, whole and in the file's order, whatever the age of its
\* slots; the current rate is looked up in it and the file is left as it is.
C11_CacheHitReturnsFile ==
    CacheHit =>
        /\ cache.kind = "ok"
        /\ call.latest = cache.prices
        /\ call.current = get_current_rate(cache.prices, call.as_at)
        /\ ~call.wrote

\* C11's case: a fresh cache served with a slot that ended before local
\* midnight of the previous day
C11_Witness ==
    /\ CacheHit
    /\ \E r \in Range(call.latest) : r.valid_to <= WindowStart(call.as_at)

\* the last call returned a series
Returned == call.path # "none" /\ call.raised = ""

\* the half-open interval of rate r holds the time t
Covers(r, t) == r.valid_from <= t /\ t < r.valid_to

\* C14: the current rate of a returned series is a slot of the series with
\* valid_from <= now < valid_to, and there is none exactly when no slot of
\* the series holds now.
C14_CurrentRateCoversNow ==
    Returned =>
        /\ Len(call.current) <= 1
        /\ \A r \in Range(call.current) :
               r \in Range(call.latest) /\ Covers(r, call.as_at)
        /\ (call.current = <<>>)
               <=> ~(\E r \in Range(call.latest) : Covers(r, call.as_at))

\* C14's case: the series holds a slot that ends exactly now and the slot
\* after it, which is the one returned
C14_Witness ==
    /\ Returned
    /\ call.current # <<>>
    /\ \E r \in Range(call.latest) :
           r.valid_to = call.as_at /\ r # call.current[1]

-----------------------------------------------------------------------------
(* Further properties of the optimisers, checked under SpecOpt *)

\* a run that ended on a series with slots
FinishedRun == Finished /\ data # <<>>

\* the slots (numbered from 1) at which the on value differs from the slot
\* before, the first slot being compared with the value before0
Changes(sched, before0) ==
    {k \in 1..Len(sched) :
        sched[k].on # (IF k = 1 THEN before0 ELSE sched[k - 1].on)}

\* C15 as claimed: the transitions are those of a scan that starts from an
\* implicit OFF state, so a first slot that is off emits nothing and the
\* first transition, if any, is on.
C15_TransitionsFromOff ==
    FinishedRun =>
        /\ result.transitions = transitions_from_off(full_schedule)
        /\ (result.transitions # <<>> => result.transitions[1].on)

\* C15 as amended: the scan starts from an undefined state that differs from
\* both on and off: the first slot always emits a transition carrying its own
\* on value (off included), and a later slot emits one exactly when its on
\* value differs from the slot before.
C15_FirstSlotAlwaysEmitted ==
    FinishedRun =>
        /\ result.transitions # <<>>
        /\ result.transitions[1] = Transition(full_schedule[1])
        /\ {tr.time : tr \in Range(result.transitions)}
               = {full_schedule[1].time}
                 \cup {full_schedule[k].time : k \in Changes(full_schedule, FALSE) \ {1}}
        /\ \A tr \in Range(result.transitions) :
               \E k \in 1..Len(full_schedule) : tr = Transition(full_schedule[k])

\* C15's case: a run whose first slot is off and whose schedule turns on later
C15_Witness ==
    /\ FinishedRun
    /\ ~full_schedule[1].on
    /\ ~result.transitions[1].on
    /\ Len(result.transitions) >= 2

\* the on value at time t when the transitions trs are replayed from OFF
Replay(trs, t) ==
    LET past == {k \in 1..Len(trs) : trs[k].time <= t}
    IN  IF past = {} THEN FALSE
        ELSE trs[CHOOSE k \in past : \A j \in past : j <= k].on

\* C16: consecutive transitions alternate in their on value and increase
\* strictly in time, and replaying them from OFF gives every slot its on
\* value.
C16_TransitionsRoundTrip ==
    Finished =>
        /\ Len(result.transitions) <= Len(full_schedule)
        /\ \A k \in 1..(Len(result.transitions) - 1) :
               /\ result.transitions[k].on # result.transitions[k + 1].on
               /\ result.transitions[k].time < result.transitions[k + 1].time
        /\ \A k \in 1..Len(full_schedule) :
               Replay(result.transitions, full_schedule[k].time) = full_schedule[k].on

\* C16's case: a schedule that goes on, off and on again
C16_Witness ==
    /\ Finished
    /\ Len(result.transitions) >= 3
    /\ \E k \in 1..(Len(full_schedule) - 1) :
           full_schedule[k].on = full_schedule[k + 1].on

\* C17: with retain_slots = 0 a run of either strategy gives a schedule in
\* which a slot is warm exactly when it is on.
C17_RetainZeroWarmIffOn ==
    (FinishedRun /\ params.retain_slots = 0) =>
        \A k \in 1..Len(full_schedule) : full_schedule[k].warm = full_schedule[k].on

\* slot i (from 0) is within the retained warmth of an earlier on slot
CoveredByEarlier(sched, i, ret) ==
    \E j \in 0..(i - 1) : sched[j + 1].on /\ i - j < ret

\* C18: with preheat_slots = 0 every on slot has a negative price or is a
\* comfort slot, and every comfort slot outside the retained warmth of an
\* earlier on slot is on.
C18_NoPreheatWithZero ==
    (FinishedRun /\ params.preheat_slots = 0) =>
        /\ \A k \in 1..Len(full_schedule) :
               full_schedule[k].on =>
                   (full_schedule[k].price < 0 \/ (k - 1) \in ComfortSlots)
        /\ \A i \in ComfortSlots :
               ~CoveredByEarlier(full_schedule, i, params.retain_slots)
                   => full_schedule[i + 1].on

\* C18's case: a run with preheat_slots = 0 in which the slot before the
\* first comfort slot is cheaper than it, and stays off
C18_Witness ==
    /\ FinishedRun
    /\ params.preheat_slots = 0
    /\ params.retain_slots >= 1
    /\ \E i \in ComfortSlots :
           /\ i >= 1
           /\ (i - 1) \notin ComfortSlots
           /\ full_schedule[i].price < full_schedule[i + 1].price
           /\ ~full_schedule[i].on
           /\ full_schedule[i + 1].on

\* the summary with every count and the cost zero and no average
ZeroSummary ==
    [total_slots |-> 0, on_slots |-> 0, total_cost |-> 0, on_price_sum |-> 0,
     average_on_price_is_none |-> TRUE, comfort_slots |-> 0,
     warm_comfort_slots |-> 0]

LocalComfortSlots ==
    {i \in 0..(Len(data) - 1) :
        InComfortHours(HourLocal(times(data)[i + 1], params.utc_offset),
                       params.comfort_hours)}

\* C20: either strategy classifies the comfort slots by the local hour of the
\* slot's start, so both find the same set and report the same comfort_slots
\* whatever the offset of local time from UTC.
C20_ComfortByLocalHour ==
    FinishedRun =>
        /\ ComfortSlots = LocalComfortSlots
        /\ greedy_comfort_slots(times(data), params.comfort_hours)
               = advanced_comfort_slots(times(data), params.comfort_hours,
                                        params.utc_offset)
        /\ result.summary.comfort_slots = Cardinality(LocalComfortSlots)

-----------------------------------------------------------------------------
(* Properties of concurrent calls, checked under SpecConc *)

\* C12: a caller that reads the cache file while another caller is writing
\* it finds a complete series, and once no caller is writing the file holds
\* a complete series.
C12_SaveIsAtomic ==
    /\ \A p \in Callers : callers[p].during_write => callers[p].saw = "ok"
    /\ (\A p \in Callers : callers[p].pc # "dump") => cache.kind \in {"absent", "ok"}

\* caller p has computed the series it saves
HasMerged(p) == callers[p].pc \in {"open", "dump"} \/ callers[p].wrote

\* the valid_from keys of the snapshot caller p loaded
SnapshotKeys(p) ==
    IF callers[p].existing.is_none THEN {} ELSE KeysOf(callers[p].existing.value)

\* C13: nothing makes a caller wait for another: the series a caller saves
\* is the merge of what it fetched with the snapshot it loaded itself,
\* whatever has been written since, and a cache file that was written holds
\* one caller's series alone.
C13_WriterSavesOwnMerge ==
    /\ \A p \in Callers :
           HasMerged(p) =>
               KeysOf(callers[p].latest) =
                   KeysOf(callers[p].fetched)
                   \cup {k \in SnapshotKeys(p) : k >= callers[p].as_at - CUTOFF}
    /\ (cache.kind = "ok" /\ \E p \in Callers : callers[p].wrote)
           => \E p \in Callers : callers[p].wrote /\ cache.prices = callers[p].latest

\* C13's case, the lost update: both callers have fetched, merged and saved;
\* the file holds the series of caller p and lacks a slot, less than 48 hours
\* old, that caller q had saved
C13_Witness ==
    \E p \in Callers, q \in Callers :
        /\ p # q
        /\ callers[p].pc = "done" /\ callers[p].wrote /\ callers[p].fetched # <<>>
        /\ callers[q].pc = "done" /\ callers[q].wrote /\ callers[q].fetched # <<>>
        /\ cache = [kind |-> "ok", prices |-> callers[p].latest]
        /\ \E k \in KeysOf(callers[q].latest) \ KeysOf(cache.prices) :
               k >= now - CUTOFF

-----------------------------------------------------------------------------
(* The worked example, checked under SpecOpt *)

\* a run on the worked example has ended
ExampleRun == Finished /\ data = ExampleData /\ params = ExampleParams

\* the transitions as <<time, on>> pairs
OnOffTimes(trs) == [k \in 1..Len(trs) |-> <<trs[k].time, trs[k].on>>]

\* C21: on the worked example either strategy gives exactly the
\* transitions on at 07:00, off at 08:30.
C21_ExampleTransitions ==
    ExampleRun =>
        OnOffTimes(result.transitions)
            = << <<7 * SlotsPerHour, TRUE>>, <<8 * SlotsPerHour + 1, FALSE>> >>

-----------------------------------------------------------------------------
(* Properties of merge_price_data, checked under SpecMerge *)

\* the series s is strictly increasing by valid_from
StrictlyIncreasing(s) ==
    \A i \in 1..(Len(s) - 1) : s[i].valid_from < s[i + 1].valid_from

\* C22: merging a series with itself gives the series sorted by valid_from:
\* the same rates, each once, in ascending order.
C22_SelfMergeIsSorted ==
    (merging.applied /\ merging.existing_prices = merging.new_prices) =>
        /\ Range(merging.result) = Range(merging.existing_prices)
        /\ Len(merging.result) = Len(merging.existing_prices)
        /\ StrictlyIncreasing(merging.result)

\* C22's case: a series of two rates in descending order, the older one more
\* than 48 hours old, merged with itself
C22_Witness ==
    /\ merging.applied
    /\ merging.existing_prices = merging.new_prices
    /\ Len(merging.existing_prices) >= 2
    /\ ~StrictlyIncreasing(merging.existing_prices)
    /\ Len(merging.filtered) < Len(merging.existing_prices)

\* C23: the merge of two series does not depend on the order of the rates in
\* either, and comes out ascending by valid_from.
C23_MergeIgnoresOrder ==
    merging.applied =>
        /\ merging.result = merging.result_reordered
        /\ StrictlyIncreasing(merging.result)

\* C23's case: two series that share a valid_from, with other rates before
\* and after it, the existing one given in descending order
C23_Witness ==
    /\ merging.applied
    /\ Len(merging.existing_prices) >= 2
    /\ ~StrictlyIncreasing(merging.existing_prices)
    /\ KeysOf(merging.existing_prices) \cap KeysOf(merging.new_prices) # {}
    /\ KeysOf(merging.new_prices) \ KeysOf(merging.existing_prices) # {}
    /\ Len(merging.filtered) = Len(merging.existing_prices)

\* C24: the cut at now - 48 hours keeps a suffix of the series in valid_from
\* order: when a rate is kept, so is every rate of the series after it.
C24_TrimKeepsSuffix ==
    merging.applied =>
        /\ Range(merging.filtered) \subseteq Range(merging.existing_prices)
        /\ \A kept \in Range(merging.filtered), r \in Range(merging.existing_prices) :
               r.valid_from > kept.valid_from => r \in Range(merging.filtered)
        /\ \E k \in 1..(Len(merging.existing_prices) + 1) :
               SortByValidFrom(merging.filtered)
                   = SubSeq(SortByValidFrom(merging.existing_prices), k,
                            Len(merging.existing_prices))

\* C24's case: a series from which the cut drops the oldest rate and keeps
\* the rest
C24_Witness ==
    /\ merging.applied
    /\ merging.filtered # <<>>
    /\ Len(merging.filtered) < Len(merging.existing_prices)

-----------------------------------------------------------------------------
(* Further properties of the rate store, checked under Spec *)

\* C25: when every fetch returns one rate per valid_from, in any order, every
\* series a call returns and every series in the cache file is strictly
\* increasing by valid_from.
C25_SeriesStrictlyIncreasing ==
    /\ Returned => StrictlyIncreasing(call.latest)
    /\ cache.kind = "ok" => StrictlyIncreasing(cache.prices)

\* C25's case: a fetch in descending order that shares a valid_from with the
\* stale cache and is merged with it, after the clock has advanced
C25_Witness ==
    /\ Merged
    /\ Len(call.new_prices) >= 2
    /\ ~StrictlyIncreasing(call.new_prices)
    /\ KeysOf(call.new_prices) \cap KeysOf(call.existing.value) # {}
    /\ Len(call.latest) >= 2
    /\ call.as_at > NowStart

\* what step 5 loads from the file: the series of a parsable file, else None
Parsable(file) == IF file.kind = "ok" THEN Some(file.prices) ELSE None

\* the first rate of the series that covers t, as a sequence of at most one
FirstCovering(series, t) ==
    LET hits == {i \in 1..Len(series) : Covers(series[i], t)}
    IN  IF hits = {} THEN <<>>
        ELSE <<series[CHOOSE i \in hits : \A j \in hits : i <= j]>>

\* C30: a call that fetches and saves returns the series it saves; that
\* series is the merge of the fetched series with the series of the cache
\* file found, if it parses, and else the fetched series sorted; the current
\* rate returned is the one of that series.
C30_ReturnedIsSavedIsMerge ==
    [][(call'.wrote /\ <<cache, mtime, call>>' # <<cache, mtime, call>>) =>
          /\ call'.raised = ""
          /\ cache' = [kind |-> "ok", prices |-> call'.latest]
          /\ call'.existing = Parsable(cache)
          /\ call'.latest =
                 IF Parsable(cache).is_none
                 THEN SortByValidFrom(call'.new_prices)
                 ELSE merge_price_data(cache.prices,
                                       SortByValidFrom(call'.new_prices), now)
          /\ call'.current = FirstCovering(call'.latest, now)]_vars

\* C30's case: a fetch merged with a stale cache that holds other rates, the
\* current rate found in the merged series
C30_Witness ==
    /\ Merged
    /\ call.new_prices # <<>>
    /\ KeysOf(call.existing.value) \ KeysOf(call.new_prices) # {}
    /\ KeysOf(call.latest) \ KeysOf(call.new_prices) # {}
    /\ call.current # <<>>

-----------------------------------------------------------------------------
(* The summary, the greedy rules, the advanced selection and the warmth,   *)
(* checked under SpecOpt                                                   *)

\* the slots (numbered from 1) of the schedule that are on
OnSlots(sched) == {k \in 1..Len(sched) : sched[k].on}

\* the sum of f over the finite set S of numbers
RECURSIVE SumOver(_, _)
SumOver(S, f) ==
    IF S = {} THEN 0
    ELSE LET x == CHOOSE y \in S : TRUE
         IN  f[x] + SumOver(S \ {x}, f)

\* C26: the summary of a run on a series with slots agrees with its
\* schedule: on_slots counts the on slots, total_slots the slots of the
\* input, warm_comfort_slots <= comfort_slots <= total_slots, and the average
\* on price is None exactly when no slot is on and else the sum of the on
\* slots' prices over on_slots.
C26_SummaryMatchesSchedule ==
    FinishedRun =>
        /\ result.summary.on_slots = Cardinality(OnSlots(full_schedule))
        /\ result.summary.total_slots = Len(data)
        /\ Len(full_schedule) = Len(data)
        /\ result.summary.warm_comfort_slots <= result.summary.comfort_slots
        /\ result.summary.comfort_slots <= result.summary.total_slots
        /\ result.summary.comfort_slots = Cardinality(ComfortSlots)
        /\ result.summary.average_on_price_is_none <=> result.summary.on_slots = 0
        /\ result.summary.on_price_sum
               = SumOver(OnSlots(full_schedule),
                         [k \in 1..Len(full_schedule) |-> full_schedule[k].price])

\* C26's case: a run with on slots, an off slot at a positive price, and
\* slots inside and outside the comfort windows
C26_Witness ==
    /\ FinishedRun
    /\ params.retain_slots >= 1
    /\ result.summary.on_slots >= 2
    /\ result.summary.on_slots < result.summary.total_slots
    /\ result.summary.comfort_slots >= 1
    /\ result.summary.comfort_slots < result.summary.total_slots
    /\ \E k \in 1..Len(full_schedule) :
           ~full_schedule[k].on /\ full_schedule[k].price > 0

\* the lookahead of slot i holds a comfort slot and no cheaper slot
PreheatPays(sched, i, cs, pre) ==
    /\ upcoming(i, Len(sched), pre) \cap cs # {}
    /\ \A idx \in upcoming(i, Len(sched), pre) :
           sched[i + 1].price <= sched[idx + 1].price

\* C27: in the simple greedy strategy a slot that neither the negative-price
\* rule nor the cold-comfort rule turns on, a comfort slot that is still warm
\* included, is on exactly when its lookahead holds a comfort slot and no
\* cheaper slot, and then its warmth is set anew.
C27_GreedyPreheatRule ==
    (FinishedRun /\ strategy = "SIMPLE_GREEDY") =>
        \A i \in 0..(Len(full_schedule) - 1) :
            LET cold_comfort ==
                    i \in ComfortSlots
                    /\ ~CoveredByEarlier(full_schedule, i, params.retain_slots)
            IN  (full_schedule[i + 1].price >= 0 /\ ~cold_comfort) =>
                    (full_schedule[i + 1].on
                         <=> PreheatPays(full_schedule, i, ComfortSlots,
                                         params.preheat_slots))

\* the comfort slots outside the retained warmth of the slots in on_set
Uncovered(on_set) ==
    advanced_comfort_slots(times(data), params.comfort_hours, params.utc_offset)
    \ {i + j : i \in on_set, j \in 0..(params.retain_slots - 1)}

\* slot b is the cheapest of the window of target t, the earliest of several
CheapestOfWindow(b, t) ==
    LET window == Max(0, t - params.preheat_slots)..t
    IN  /\ b \in window
        /\ \A k \in window : prices(data)[b + 1] <= prices(data)[k + 1]
        /\ \A k \in window : k < b => prices(data)[k + 1] > prices(data)[b + 1]

\* C28: the advanced predictive strategy starts from the negative-price
\* slots; each pass of its loop turns on the cheapest slot (the earliest of
\* several) of the window of the earliest comfort slot that the slots on so
\* far leave uncovered; the on slots of the schedule are these and no other.
C28_AdvancedSelection ==
    [][strategy = "ADVANCED_PREDICTIVE" =>
          /\ (opc = "start" /\ opc' = "loop")
                 => on_indices' = negative_price_slots(prices(data))
          /\ (opc = "loop" /\ opc' = "loop")
                 => \A b \in on_indices' \ on_indices :
                        /\ Uncovered(on_indices) # {}
                        /\ CheapestOfWindow(b, MinOf(Uncovered(on_indices)))
          /\ (opc = "loop" /\ opc' = "done")
                 => {k - 1 : k \in OnSlots(full_schedule')} = on_indices]_vars

\* C29: in the schedule of either strategy a slot is warm exactly when some
\* on slot j has j <= i < j + retain_slots, and the slots the advanced
\* strategy counts as covered are the slots its schedule reports warm.
C29_WarmIsCoverage ==
    FinishedRun =>
        /\ \A i \in 0..(Len(full_schedule) - 1) :
               full_schedule[i + 1].warm
                   <=> \E j \in 0..i :
                           full_schedule[j + 1].on /\ i < j + params.retain_slots
        /\ strategy = "ADVANCED_PREDICTIVE" =>
               get_covered_slots(on_indices, params.retain_slots, Len(data))
                   = {i \in 0..(Len(full_schedule) - 1) : full_schedule[i + 1].warm}

\* C29's case: an advanced run in which a slot is warm without being on, and
\* a later slot is cold again
C29_Witness ==
    /\ FinishedRun
    /\ strategy = "ADVANCED_PREDICTIVE"
    /\ params.retain_slots >= 2
    /\ \E k \in 2..(Len(full_schedule) - 1) :
           /\ full_schedule[k - 1].on
           /\ ~full_schedule[k].on /\ full_schedule[k].warm
           /\ ~full_schedule[k + 1].warm

-----------------------------------------------------------------------------
(* The total cost, checked under SpecOpt                                   *)

\* C31: the total cost of a run of either strategy is the sum over its on
\* slots alone of price * power_kw * slot_duration_hours / 100: an off slot
\* adds nothing, an on slot at a negative price adds a negative amount, and
\* the total is negative when the on slots' prices sum below zero.
C31_TotalCostOverOnSlots ==
    FinishedRun =>
        /\ result.summary.total_cost
               = SumOver(OnSlots(full_schedule),
                         [k \in 1..Len(full_schedule) |->
                              full_schedule[k].price * PowerKw
                                  * SlotDurationHalfHours])
        /\ (\A k \in OnSlots(full_schedule) : full_schedule[k].price < 0)
               => (result.summary.total_cost < 0 <=> OnSlots(full_schedule) # {})

\* C31's case: a run whose total cost is negative although an on slot and an
\* off slot have positive prices
C31_Witness ==
    /\ FinishedRun
    /\ result.summary.total_cost < 0
    /\ \E k \in 1..Len(full_schedule) :
           full_schedule[k].on /\ full_schedule[k].price > 0
    /\ \E k \in 1..Len(full_schedule) :
           ~full_schedule[k].on /\ full_schedule[k].price > 0

-----------------------------------------------------------------------------
(* The freshness window over a run of sequential calls, checked under Spec *)

\* the cache file holds a saved series less than 2 hours old
SavedFresh == cache.kind = "ok" /\ now - mtime < MAX_AGE

\* C32: in a run of sequential calls, a call that fetches and saves leaves
\* the series it returns in the cache file, stamped with the time of the call;
\* a call made less than 2 hours after the file was saved does not call the
\* API, changes neither the file nor its time, and returns the series of the
\* file; two saves are at least 2 hours apart.
C32_OneFetchPerWindow ==
    [][now' = now =>
          /\ call'.wrote =>
                 /\ cache' = [kind |-> "ok", prices |-> call'.latest]
                 /\ mtime' = now
          /\ SavedFresh =>
                 /\ call'.path = "cache"
                 /\ call'.api = "not_called"
                 /\ call'.raised = ""
                 /\ ~call'.wrote
                 /\ call'.latest = cache.prices
                 /\ cache' = cache
                 /\ mtime' = mtime
          /\ (call'.api # "not_called" /\ cache.kind = "ok")
                 => now - mtime >= MAX_AGE]_vars

\* C32's case: a call is served from a file that an earlier call of the run
\* saved (the files the run starts with are older than the start), some time
\* after the save
C32_Witness ==
    /\ CacheHit
    /\ mtime >= NowStart
    /\ call.as_at > mtime
    /\ call.latest = cache.prices
    /\ Len(call.latest) >= 2

-----------------------------------------------------------------------------
(* The strategies as functions of their input, checked under SpecOpt       *)

\* simple_greedy_optimiser.optimize_heating_schedule as a function of its
\* arguments
greedy_result(d, p) ==
    LET cs    == greedy_comfort_slots(times(d), p.comfort_hours)
        sched == greedy_schedule(times(d), prices(d), cs,
                                 p.preheat_slots, p.retain_slots)
    IN  [transitions |-> transitions(sched),
         summary |-> summary(sched, cs, OnCount(sched))]

\* the on_indices the advanced strategy's while loop ends with, from the
\* negative-price slots and every comfort slot uncovered
advanced_on_indices(d, p) ==
    LET RECURSIVE loop(_, _)
        loop(on, unc) ==
            IF unc = {} THEN on
            ELSE LET target_slot == MinOf(unc)
                     best == best_heating_slot(
                                 prices(d),
                                 Max(0, target_slot - p.preheat_slots),
                                 target_slot)
                     on_new == on \cup {best}
                 IN  loop(on_new,
                          unc \ get_covered_slots(on_new, p.retain_slots, Len(d)))
    IN  loop(negative_price_slots(prices(d)),
             advanced_comfort_slots(times(d), p.comfort_hours, p.utc_offset))

\* advanced_predictive_optimiser.optimize_heating_schedule as a function of
\* its arguments, for a series with slots on which its loop ends
advanced_result(d, p) ==
    LET cs    == advanced_comfort_slots(times(d), p.comfort_hours, p.utc_offset)
        on    == advanced_on_indices(d, p)
        sched == advanced_schedule(times(d), prices(d), on, p.retain_slots)
    IN  [transitions |-> transitions(sched),
         summary |-> summary(sched, cs, Cardinality(on))]

\* the lists that hold the rates of the list d in some order
Orderings(d) ==
    {[i \in 1..Len(d) |-> d[pi[i]]] : pi \in Permutations(1..Len(d))}

\* the longest series given in every order
MaxShuffled == MaxSlots - 1

\* the parameters of the runs on reordered series
OrderParams ==
    [comfort_hours : ComfortChoices, preheat_slots : {0, MaxPreheat},
     retain_slots : {1, MaxRetain}, utc_offset : UtcOffsets]

\* a run of either strategy on a series of half-hour slots, one rate per
\* valid_from, given in any order
OrderInit ==
    /\ cache = [kind |-> "absent", prices |-> <<>>]
    /\ mtime = 0
    /\ now = NowStart
    /\ call = NoCall
    /\ callers = [p \in Callers |-> IdleCaller]
    /\ merging = NoMerge
    /\ strategy \in Strategies
    /\ \E t0 \in StartTimes, ps \in SeqsUpTo(Prices, MaxShuffled) :
           data \in Orderings(Series(t0, ps))
    /\ params \in OrderParams
    /\ opc = "start"
    /\ on_indices = {}
    /\ uncovered_comfort_slots = {}
    /\ iterations = 0
    /\ full_schedule = <<>>
    /\ result = <<>>

SpecOrder == OrderInit /\ [][OptNext]_vars

\* C33: a run of either strategy leaves the caller's list as it was, and the
\* transitions and the summary it returns for rates (one per valid_from)
\* given in any order are those it returns for the same rates in ascending
\* order and in the reverse of the given order.
C33_OrderOfInputIgnored ==
    [][/\ data' = data
       /\ (opc' = "done" /\ data # <<>>) =>
              \A q \in {data_sorted(data), Reverse(data)} :
                  result' = IF strategy = "SIMPLE_GREEDY"
                            THEN greedy_result(q, params)
                            ELSE advanced_result(q, params)]_vars

\* C33's case: a run on a series given neither in ascending nor in
\* descending order, with prices that all differ, which has slots on and
\* slots off
C33_Witness ==
    /\ FinishedRun
    /\ Len(data) >= 3
    /\ data # data_sorted(data)
    /\ data # Reverse(data_sorted(data))
    /\ Cardinality({data[k].value_inc_vat : k \in 1..Len(data)}) = Len(data)
    /\ result.summary.on_slots >= 1
    /\ result.summary.on_slots < result.summary.total_slots

====
